---------------------------- MODULE Spec2Model ----------------------------
(***************************************************************************)
(* Model of bp_lib.py, the BitPay client library: the transport bpCurl,    *)
(* bpCreateInvoice, bpGetInvoice, bpVerifyNotification, bpDecodeResponse,  *)
(* the keyed hash bpHash, sanitize_dict and the log file written by bpLog. *)
(*                                                                         *)
(* A text is a sequence of code points.  A Python dict whose keys and      *)
(* values are texts is a function from texts to texts.  JSON texts are     *)
(* produced and parsed character by character, as json.dumps and           *)
(* json.loads do for the objects this library exchanges (objects whose     *)
(* members are strings).                                                   *)
(***************************************************************************)
EXTENDS Integers, Sequences, FiniteSets, TLC

(***************************************************************************)
(* Literal texts of the source.                                            *)
(***************************************************************************)
\* "https://bitpay.com/api/invoice/"
URL_INVOICE ==
  <<104, 116, 116, 112, 115, 58, 47, 47, 98, 105, 116, 112, 97, 121, 46, 99, 111, 109, 47, 97, 112, 105, 47, 105, 110, 118, 111, 105, 99, 101, 47>>
\* "url or apiKey were blank."
ERR_BLANK ==
  <<117, 114, 108, 32, 111, 114, 32, 97, 112, 105, 75, 101, 121, 32, 119, 101, 114, 101, 32, 98, 108, 97, 110, 107, 46>>
\* "posData > 100 character limit. Are you using the posData hash?"
ERR_TOO_LONG ==
  <<112, 111, 115, 68, 97, 116, 97, 32, 62, 32, 49, 48, 48, 32, 99, 104, 97, 114, 97, 99, 116, 101, 114, 32, 108, 105, 109, 105, 116, 46, 32, 65, 114, 101, 32, 121, 111, 117, 32, 117, 115, 105, 110, 103, 32, 116, 104, 101, 32, 112, 111, 115, 68, 97, 116, 97, 32, 104, 97, 115, 104, 63>>
\* "No post data"
ERR_NO_POST ==
  <<78, 111, 32, 112, 111, 115, 116, 32, 100, 97, 116, 97>>
\* "no posData"
ERR_NO_POSDATA ==
  <<110, 111, 32, 112, 111, 115, 68, 97, 116, 97>>
\* "authentication failed (bad hash)"
ERR_BAD_HASH ==
  <<97, 117, 116, 104, 101, 110, 116, 105, 99, 97, 116, 105, 111, 110, 32, 102, 97, 105, 108, 101, 100, 32, 40, 98, 97, 100, 32, 104, 97, 115, 104, 41>>
\* "Error: decodeResponse expects a string parameter."
ERR_DECODE ==
  <<69, 114, 114, 111, 114, 58, 32, 100, 101, 99, 111, 100, 101, 82, 101, 115, 112, 111, 110, 115, 101, 32, 101, 120, 112, 101, 99, 116, 115, 32, 97, 32, 115, 116, 114, 105, 110, 103, 32, 112, 97, 114, 97, 109, 101, 116, 101, 114, 46>>
k_orderID == <<111, 114, 100, 101, 114, 73, 68>>  \* "orderID"
k_itemDesc == <<105, 116, 101, 109, 68, 101, 115, 99>>  \* "itemDesc"
k_itemCode == <<105, 116, 101, 109, 67, 111, 100, 101>>  \* "itemCode"
k_notificationEmail == <<110, 111, 116, 105, 102, 105, 99, 97, 116, 105, 111, 110, 69, 109, 97, 105, 108>>  \* "notificationEmail"
k_notificationURL == <<110, 111, 116, 105, 102, 105, 99, 97, 116, 105, 111, 110, 85, 82, 76>>  \* "notificationURL"
k_redirectURL == <<114, 101, 100, 105, 114, 101, 99, 116, 85, 82, 76>>  \* "redirectURL"
k_posData == <<112, 111, 115, 68, 97, 116, 97>>  \* "posData"
k_price == <<112, 114, 105, 99, 101>>  \* "price"
k_currency == <<99, 117, 114, 114, 101, 110, 99, 121>>  \* "currency"
k_physical == <<112, 104, 121, 115, 105, 99, 97, 108>>  \* "physical"
k_fullNotifications == <<102, 117, 108, 108, 78, 111, 116, 105, 102, 105, 99, 97, 116, 105, 111, 110, 115>>  \* "fullNotifications"
k_transactionSpeed == <<116, 114, 97, 110, 115, 97, 99, 116, 105, 111, 110, 83, 112, 101, 101, 100>>  \* "transactionSpeed"
k_buyerName == <<98, 117, 121, 101, 114, 78, 97, 109, 101>>  \* "buyerName"
k_buyerAddress1 == <<98, 117, 121, 101, 114, 65, 100, 100, 114, 101, 115, 115, 49>>  \* "buyerAddress1"
k_buyerAddress2 == <<98, 117, 121, 101, 114, 65, 100, 100, 114, 101, 115, 115, 50>>  \* "buyerAddress2"
k_buyerCity == <<98, 117, 121, 101, 114, 67, 105, 116, 121>>  \* "buyerCity"
k_buyerState == <<98, 117, 121, 101, 114, 83, 116, 97, 116, 101>>  \* "buyerState"
k_buyerZip == <<98, 117, 121, 101, 114, 90, 105, 112>>  \* "buyerZip"
k_buyerEmail == <<98, 117, 121, 101, 114, 69, 109, 97, 105, 108>>  \* "buyerEmail"
k_buyerPhone == <<98, 117, 121, 101, 114, 80, 104, 111, 110, 101>>  \* "buyerPhone"
k_hash == <<104, 97, 115, 104>>  \* "hash"
k_apiKey == <<97, 112, 105, 75, 101, 121>>  \* "apiKey"
k_verifyPos == <<118, 101, 114, 105, 102, 121, 80, 111, 115>>  \* "verifyPos"
k_useLogging == <<117, 115, 101, 76, 111, 103, 103, 105, 110, 103>>  \* "useLogging"
k_logFile == <<108, 111, 103, 70, 105, 108, 101>>  \* "logFile"
k_error == <<101, 114, 114, 111, 114>>  \* "error"
k_id == <<105, 100>>  \* "id"
post_options ==
  {k_orderID, k_itemDesc, k_itemCode, k_notificationEmail, k_notificationURL,
   k_redirectURL, k_posData, k_price, k_currency, k_physical,
   k_fullNotifications, k_transactionSpeed, k_buyerName, k_buyerAddress1, k_buyerAddress2,
   k_buyerCity, k_buyerState, k_buyerZip, k_buyerEmail, k_buyerPhone}

(***************************************************************************)
(* Bounds of the explored inputs.                                          *)
(***************************************************************************)
\* every text over Alphabet of at most this length is a posData input
MaxShort == 2
\* the log file is followed until it holds this many lines
MaxLog == 4

\* the characters posData inputs are made of: a, the double quote, e-acute
Alphabet == <<97, 34, 233>>
\* the API keys in use: "A", "B", the empty key, a whitespace-only key
ApiKeys == << <<65>>, <<66>>, <<>>, <<32>> >>

EmptyDict == [x \in {} |-> <<>>]

Repeat(c, n) == [i \in 1..n |-> c]

(***************************************************************************)
(* str.strip(): whitespace removed at both ends.                           *)
(***************************************************************************)
IsSpace(c) == c \in {9, 10, 11, 12, 13, 32}

RECURSIVE LStrip(_)
LStrip(t) == IF t # <<>> /\ IsSpace(Head(t)) THEN LStrip(Tail(t)) ELSE t

RECURSIVE RStrip(_)
RStrip(t) ==
  IF t # <<>> /\ IsSpace(t[Len(t)]) THEN RStrip(SubSeq(t, 1, Len(t) - 1)) ELSE t

strip_Nothing(t) == t

strip(t) == RStrip(LStrip(t))

(***************************************************************************)
(* json.dumps (ensure_ascii): strings are quoted, the quote and the        *)
(* backslash are escaped, every character outside ' '..'~' becomes a       *)
(* \uXXXX escape (or its short form); a dict becomes {"k": "v", ...}.      *)
(***************************************************************************)
HexDigit(n) == IF n < 10 THEN 48 + n ELSE 87 + n

EscapeChar(c) ==
  IF c = 34 THEN <<92, 34>>
  ELSE IF c = 92 THEN <<92, 92>>
  ELSE IF c = 10 THEN <<92, 110>>
  ELSE IF c = 13 THEN <<92, 114>>
  ELSE IF c = 9 THEN <<92, 116>>
  ELSE IF c = 8 THEN <<92, 98>>
  ELSE IF c = 12 THEN <<92, 102>>
  ELSE IF c < 32 \/ c > 126
       THEN <<92, 117, HexDigit((c \div 4096) % 16), HexDigit((c \div 256) % 16),
              HexDigit((c \div 16) % 16), HexDigit(c % 16)>>
       ELSE <<c>>

\* the escapes of t[lo..hi], concatenated
RECURSIVE EscapeRange(_, _, _)
EscapeRange(t, lo, hi) ==
  IF lo > hi THEN <<>>
  ELSE IF lo = hi THEN EscapeChar(t[lo])
  ELSE LET mid == (lo + hi) \div 2 IN
       EscapeRange(t, lo, mid) \o EscapeRange(t, mid + 1, hi)

DumpsString(t) == <<34>> \o EscapeRange(t, 1, Len(t)) \o <<34>>

\* the order in which a dict's keys are iterated: arbitrary but fixed
RECURSIVE KeyOrder(_)
KeyOrder(S) ==
  IF S = {} THEN <<>>
  ELSE LET k == CHOOSE x \in S : TRUE IN <<k>> \o KeyOrder(S \ {k})

RECURSIVE DumpsMembers(_, _)
DumpsMembers(d, ks) ==
  IF ks = <<>> THEN <<>>
  ELSE DumpsString(Head(ks)) \o <<58, 32>> \o DumpsString(d[Head(ks)])
       \o (IF Len(ks) > 1 THEN <<44, 32>> ELSE <<>>)
       \o DumpsMembers(d, Tail(ks))

json_dumps(d) == <<123>> \o DumpsMembers(d, KeyOrder(DOMAIN d)) \o <<125>>

(***************************************************************************)
(* json.loads: ok is FALSE where json.loads raises ValueError.             *)
(***************************************************************************)
ParseFail == [ok |-> FALSE, val |-> <<>>, next |-> 0]

HexVal(c) ==
  IF c \in 48..57 THEN c - 48
  ELSE IF c \in 97..102 THEN c - 87
  ELSE IF c \in 65..70 THEN c - 55
  ELSE -1

Unescape(e) ==
  IF e \in {34, 92, 47} THEN e
  ELSE IF e = 98 THEN 8
  ELSE IF e = 102 THEN 12
  ELSE IF e = 110 THEN 10
  ELSE IF e = 114 THEN 13
  ELSE IF e = 116 THEN 9
  ELSE -1

RECURSIVE SkipWs(_, _)
SkipWs(t, i) ==
  IF i <= Len(t) /\ t[i] \in {32, 9, 10, 13} THEN SkipWs(t, i + 1) ELSE i

\* the number of backslashes that immediately precede position j
RECURSIVE BackslashRun(_, _)
BackslashRun(t, j) ==
  IF j > 1 /\ t[j - 1] = 92 THEN 1 + BackslashRun(t, j - 1) ELSE 0

\* t[j] is the character of an escape: an odd run of backslashes precedes it
Escaped(t, j) == BackslashRun(t, j) % 2 = 1

\* the first unescaped quote in t[lo..hi], 0 when there is none
RECURSIVE ClosingQuote(_, _, _)
ClosingQuote(t, lo, hi) ==
  IF lo > hi THEN 0
  ELSE IF lo = hi THEN (IF t[lo] = 34 /\ ~Escaped(t, lo) THEN lo ELSE 0)
  ELSE LET mid == (lo + hi) \div 2
           l == ClosingQuote(t, lo, mid) IN
       IF l # 0 THEN l ELSE ClosingQuote(t, mid + 1, hi)

\* t[j] is one of the four hex digits of a \uXXXX escape
InUnicodeEscape(t, j) ==
  \E d \in 1..4 : j - d >= 1 /\ t[j - d] = 117 /\ Escaped(t, j - d)

\* position j of a string body that ends before position q is well formed
ValidAt(t, j, q) ==
  IF Escaped(t, j)
  THEN \/ Unescape(t[j]) >= 0
       \/ t[j] = 117 /\ j + 4 < q /\ \A d \in 1..4 : HexVal(t[j + d]) >= 0
  ELSE t[j] >= 32

\* the characters position j of a string body contributes to the value
DecodeAt(t, j) ==
  IF Escaped(t, j)
  THEN IF t[j] = 117
       THEN <<4096 * HexVal(t[j + 1]) + 256 * HexVal(t[j + 2])
              + 16 * HexVal(t[j + 3]) + HexVal(t[j + 4])>>
       ELSE <<Unescape(t[j])>>
  ELSE IF t[j] = 92 \/ InUnicodeEscape(t, j) THEN <<>>
  ELSE <<t[j]>>

RECURSIVE DecodeRange(_, _, _)
DecodeRange(t, lo, hi) ==
  IF lo > hi THEN <<>>
  ELSE IF lo = hi THEN DecodeAt(t, lo)
  ELSE LET mid == (lo + hi) \div 2 IN
       DecodeRange(t, lo, mid) \o DecodeRange(t, mid + 1, hi)

\* the string whose body starts at i and whose closing quote is at q (0 when
\* there is none)
StringTo(t, i, q) ==
  IF q = 0 \/ \E j \in i..(q - 1) : ~ValidAt(t, j, q) THEN ParseFail
  ELSE [ok |-> TRUE, val |-> DecodeRange(t, i, q - 1), next |-> q + 1]

\* i is the position after the opening quote
ScanString(t, i) == StringTo(t, i, ClosingQuote(t, i, Len(t)))

\* a string whose opening quote is expected at position a
QuotedAt(t, a) ==
  IF a > Len(t) \/ t[a] # 34 THEN ParseFail ELSE ScanString(t, a + 1)

ScanQuoted(t, i) == QuotedAt(t, SkipWs(t, i))

\* the position after the character c expected at a, 0 when it is not there
ExpectAt(t, a, c) == IF a <= Len(t) /\ t[a] = c THEN a + 1 ELSE 0

Expect(t, i, c) == ExpectAt(t, SkipWs(t, i), c)

MemberFail == [ok |-> FALSE, key |-> <<>>, val |-> <<>>, next |-> 0]

\* a member "key": "value", k being its key and v its value
MemberWith(k, v) ==
  IF ~v.ok THEN MemberFail
  ELSE [ok |-> TRUE, key |-> k.val, val |-> v.val, next |-> v.next]

MemberAfterColon(t, k, p) ==
  IF p = 0 THEN MemberFail ELSE MemberWith(k, ScanQuoted(t, p))

MemberAfterKey(t, k) ==
  IF ~k.ok THEN MemberFail ELSE MemberAfterColon(t, k, Expect(t, k.next, 58))

\* i is the position where a member's key is expected
ScanMember(t, i) == MemberAfterKey(t, ScanQuoted(t, i))

\* the members of an object, d holding those before position i
RECURSIVE ScanMembers(_, _, _)
MembersEnd(t, d, e) ==
  IF e > Len(t) THEN ParseFail
  ELSE IF t[e] = 125 THEN [ok |-> TRUE, val |-> d, next |-> e + 1]
  ELSE IF t[e] = 44 THEN ScanMembers(t, e + 1, d)
  ELSE ParseFail

MembersAfter(t, d, m) ==
  IF ~m.ok THEN ParseFail
  ELSE MembersEnd(t, [x \in DOMAIN d \cup {m.key} |->
                        IF x = m.key THEN m.val ELSE d[x]],
                  SkipWs(t, m.next))

ScanMembers(t, i, d) == MembersAfter(t, d, ScanMember(t, i))

\* the object that starts at position a, b being the position after its brace
ObjectAt(t, a, b) ==
  IF a > Len(t) \/ t[a] # 123 THEN ParseFail
  ELSE IF b <= Len(t) /\ t[b] = 125
  THEN [ok |-> TRUE, val |-> EmptyDict, next |-> b + 1]
  ELSE ScanMembers(t, a + 1, EmptyDict)

\* nothing but whitespace may follow the value
Whole(t, m) == IF m.ok /\ SkipWs(t, m.next) > Len(t) THEN m ELSE ParseFail

ScanObject(t, a) == ObjectAt(t, a, SkipWs(t, a + 1))

json_loads(t) == Whole(t, ScanObject(t, SkipWs(t, 1)))

(***************************************************************************)
(* sanitize_dict on a string, then str(): a byte string is kept, a unicode *)
(* string is encoded as ASCII, which raises UnicodeEncodeError (ok FALSE)  *)
(* when it holds a character above 127.                                    *)
(***************************************************************************)
sanitize_dict(data) ==
  [ok  |-> data.kind = "str" \/ \A i \in 1..Len(data.text) : data.text[i] < 128,
   val |-> data.text]

(***************************************************************************)
(* bpHash: HMAC-SHA256, base64 encoded, the trailing newline dropped: 43   *)
(* base64 symbols and "=".  The digest is modelled as collision free: the  *)
(* first symbol carries the key, the other 42 carry the data, three        *)
(* characters of Alphabet to a symbol.                                     *)
(***************************************************************************)
B64Char(i) ==
  IF i < 26 THEN 65 + i
  ELSE IF i < 52 THEN 97 + (i - 26)
  ELSE IF i < 62 THEN 48 + (i - 52)
  ELSE IF i = 62 THEN 43 ELSE 47

AlphaCode(c) ==
  IF \E i \in 1..Len(Alphabet) : Alphabet[i] = c
  THEN CHOOSE i \in 1..Len(Alphabet) : Alphabet[i] = c
  ELSE 0

KeyCode(key) ==
  IF \E i \in 1..Len(ApiKeys) : ApiKeys[i] = key
  THEN CHOOSE i \in 1..Len(ApiKeys) : ApiKeys[i] = key
  ELSE 0

bpHash(data, key) ==
  LET D(j) == IF j <= Len(data) THEN AlphaCode(data[j]) ELSE 0 IN
  [s \in 1..44 |->
     IF s = 1 THEN B64Char(KeyCode(key))
     ELSE IF s = 44 THEN 61
     ELSE B64Char(16 * D(3 * s - 5) + 4 * D(3 * s - 4) + D(3 * s - 3))]

(***************************************************************************)
(* State.                                                                  *)
(***************************************************************************)
VARIABLES
  config,  \* bp_options.bpOptions, the process-wide configuration dict
  log,     \* the lines of the log file, each named by the bpLog call that wrote it
  pc,      \* the embedding application: "ready" to call, or holding a "returned" call
  call,    \* the operation called last and its arguments
  ret,     \* what that call returned or raised
  curl,    \* the invocations of bpCurl made during that call
  sent     \* the HTTP requests issued during that call

vars == <<config, log, pc, call, ret, curl, sent>>

(***************************************************************************)
(* Inputs.                                                                 *)
(***************************************************************************)
USD == <<85, 83, 68>>
EUR == <<69, 85, 82>>

bpOptions(key, verifyPos, useLogging) ==
  (k_apiKey :> key) @@ (k_verifyPos :> verifyPos)
  @@ (k_useLogging :> useLogging) @@ (k_logFile :> <<>>) @@ (k_currency :> USD)

Configs == {bpOptions(<<65>>, v, l) : v \in BOOLEAN, l \in BOOLEAN}

AlphabetSet == {Alphabet[i] : i \in 1..Len(Alphabet)}
KeySet == {ApiKeys[i] : i \in 1..Len(ApiKeys)}

ShortTexts == UNION {[1..n -> AlphabetSet] : n \in 0..MaxShort}

\* runs of one character whose envelopes lie on both sides of the limit,
\* with and without the hash
LongRuns ==
  {<<97, 29>>, <<97, 30>>, <<97, 85>>, <<97, 86>>,
   <<34, 14>>, <<34, 15>>, <<34, 42>>, <<34, 43>>,
   <<233, 4>>, <<233, 5>>, <<233, 14>>, <<233, 15>>}

PosDataTexts == ShortTexts \cup {Repeat(r[1], r[2]) : r \in LongRuns}

\* pos_data as the caller passes it: a byte string or a unicode string
PosDataValues == [kind : {"str", "unicode"}, text : PosDataTexts]

NoOptions == [present |-> FALSE, d |-> EmptyDict]

OptionDicts ==
  {EmptyDict,
   k_apiKey :> <<66>>,
   k_apiKey :> <<>>,
   k_currency :> EUR,
   k_orderID :> <<88>>,
   (k_itemDesc :> <<100>>) @@ (k_useLogging :> TRUE)}

OptionsValues == {NoOptions} \cup {[present |-> TRUE, d |-> d] : d \in OptionDicts}

Envelope(p, h) ==
  json_dumps(IF h = <<>> THEN k_posData :> p ELSE (k_posData :> p) @@ (k_hash :> h))

\* the provider's object around an envelope
Notification(env) == (k_id :> <<49>>) @@ (k_posData :> env)

\* a payload handed to bpVerifyNotification that is not a notification around
\* an envelope {"posData": .., "hash": ..}
Plain(post) == [post |-> post, enveloped |-> FALSE, posData |-> <<>>, hash |-> <<>>]

\* the payloads: the text, and for a notification around an envelope the
\* posData and the hash (<<>> when it has none) the envelope was built from
Notifications ==
  {Plain(<<>>), Plain(<<123>>), Plain(json_dumps(k_id :> <<49>>)),
   Plain(json_dumps(Notification(<<97>>))),
   Plain(json_dumps(Notification(json_dumps(k_hash :> bpHash(<<97>>, <<65>>)))))}
  \cup UNION {{[post |-> json_dumps(Notification(Envelope(p, h))),
                enveloped |-> TRUE, posData |-> p, hash |-> h] :
                 h \in {<<>>, bpHash(<<97>>, <<65>>)}
                       \cup {bpHash(p, k) : k \in KeySet}} :
              p \in PosDataTexts}

ResponseTexts ==
  {<<60>>,
   json_dumps(k_id :> <<49>>),
   json_dumps(Notification(<<97>>)),
   json_dumps(Notification(json_dumps(k_hash :> bpHash(<<97>>, <<65>>)))),
   json_dumps(Notification(Envelope(<<97, 34>>, <<>>))),
   json_dumps(Notification(Envelope(<<233>>, bpHash(<<233>>, <<65>>))))}

\* what the network does with a request: it fails, or it answers with a body
NetOutcomes(bodies) ==
  {[fault |-> TRUE, body |-> <<>>]}
  \cup {[fault |-> FALSE, body |-> b] : b \in bodies}

\* whether the log file can be opened, asked only where logging is enabled
IoOutcomes(opts) == IF opts[k_useLogging] THEN BOOLEAN ELSE {TRUE}

(***************************************************************************)
(* Results.                                                                *)
(***************************************************************************)
Returned(kind, val) == [raised |-> FALSE, exc |-> "", kind |-> kind, val |-> val]
Raised(exc) == [raised |-> TRUE, exc |-> exc, kind |-> "none", val |-> <<>>]

Outcome(r, c, s, l, o) ==
  [ret |-> r, curl |-> c, sent |-> s, logged |-> l, bpOptions |-> o]

(***************************************************************************)
(* bpLog: appends one line; opening the file may fail.                     *)
(***************************************************************************)
bpLog(line, io) == IF io THEN <<line>> ELSE <<>>

\* if bp_options.bpOptions['useLogging']
LoggingEnabled_Always(opts) == TRUE

LoggingEnabled(opts) == opts[k_useLogging]

(***************************************************************************)
(* bpCurl.                                                                 *)
(***************************************************************************)
\* bpCurl up to the point where the request is opened: whether the url or
\* the key is blank, whether the body fails to parse, and the request
bpCurlSend(url, api_key, post) ==
  LET parsedPost == json_loads(post) IN
  [url |-> url, api_key |-> api_key, post |-> post,
   blank |-> ~(strip(url) # <<>> /\ strip(api_key) # <<>>),
   bad_post |-> post # <<>> /\ ~parsedPost.ok,
   req |-> [method |-> IF post # <<>> THEN "POST" ELSE "GET",
            url |-> url, api_key |-> api_key,
            data |-> IF post # <<>> THEN parsedPost.val ELSE EmptyDict]]

\* bpCurl, s being bpCurlSend of its arguments and net what the network does
bpCurl(opts, s, net, io) ==
  LET inv == <<[url |-> s.url, api_key |-> s.api_key, post |-> s.post]>>
      parsed == json_loads(net.body) IN
  IF s.blank
  THEN Outcome(Returned("dict", k_error :> ERR_BLANK), inv, <<>>, <<>>, opts)
  ELSE IF s.bad_post
  THEN Outcome(Raised("ValueError"), inv, <<>>, <<>>, opts)
  ELSE IF net.fault
  THEN Outcome(Raised("URLError"), inv, <<s.req>>, <<>>, opts)
  ELSE IF parsed.ok
  THEN Outcome(Returned("dict", parsed.val), inv, <<s.req>>, <<>>, opts)
  ELSE IF LoggingEnabled(opts) /\ ~io
  THEN Outcome(Raised("IOError"), inv, <<s.req>>, <<>>, opts)
  ELSE Outcome(Returned("dict", k_error :> net.body), inv, <<s.req>>,
               IF LoggingEnabled(opts) THEN bpLog("Error: ", io) ELSE <<>>, opts)

(***************************************************************************)
(* bpCreateInvoice.                                                        *)
(***************************************************************************)
\* dict(bp_options.bpOptions.items() + options.items()): a new dict
MergeOptions_DefaultsWin(opts, options) ==
  [k \in DOMAIN opts \cup DOMAIN options |->
     IF k \in DOMAIN opts THEN opts[k] ELSE options[k]]

MergeOptions(opts, options) ==
  [k \in DOMAIN opts \cup DOMAIN options |->
     IF k \in DOMAIN options THEN options[k] ELSE opts[k]]

\* options[k] = v: the local dict changes, bp_options.bpOptions does not
StoreOption_Aliased(st, k, v) ==
  LET d == [x \in DOMAIN st.options \cup {k} |->
              IF x = k THEN v ELSE st.options[x]]
  IN [bpOptions |-> d, options |-> d]

StoreOption(st, k, v) ==
  [bpOptions |-> st.bpOptions,
   options |-> [x \in DOMAIN st.options \cup {k} |->
                  IF x = k THEN v ELSE st.options[x]]]

\* the posData envelope: pos before it is serialised
PosEnvelope(opts, merged, pos_data) ==
  IF opts[k_verifyPos]
  THEN (k_posData :> pos_data.text)
       @@ (k_hash :> bpHash(sanitize_dict(pos_data).val, merged[k_apiKey]))
  ELSE k_posData :> pos_data.text

\* len(options['posData']) > 100
TooLong_Limit1000(envelope) == Len(envelope) > 1000

TooLong(envelope) == Len(envelope) > 100

\* the loop over post_options: pos keeps its keys and takes the listed options
PostBody(pos, options) ==
  [k \in DOMAIN pos \cup (post_options \cap DOMAIN options) |->
     IF k \in post_options \cap DOMAIN options THEN options[k] ELSE pos[k]]

\* bpCreateInvoice up to the call of bpCurl: it raised, it returned the
\* length error, or it is about to post
InvoiceRequest(opts, order_id, price, pos_data, options) ==
  LET given == IF options.present THEN options.d ELSE EmptyDict
      merged == MergeOptions(opts, given)
      pos == PosEnvelope(opts, merged, pos_data)
      st1 == StoreOption([bpOptions |-> opts, options |-> merged],
                         k_posData, json_dumps(pos))
      st2 == StoreOption(st1, k_orderID, order_id)
      st3 == StoreOption(st2, k_price, price)
  IN
  IF opts[k_verifyPos] /\ ~sanitize_dict(pos_data).ok
  THEN [stage |-> "raised", bpOptions |-> opts, send |-> <<>>]
  ELSE IF TooLong(st1.options[k_posData])
  THEN [stage |-> "too long", bpOptions |-> st1.bpOptions, send |-> <<>>]
  ELSE [stage |-> "post", bpOptions |-> st3.bpOptions,
        send |-> bpCurlSend(URL_INVOICE, st3.options[k_apiKey],
                            json_dumps(PostBody(pos, st3.options)))]

\* bpCreateInvoice, inv being InvoiceRequest of its arguments
bpCreateInvoice(inv, net, io) ==
  LET c == bpCurl(inv.bpOptions, inv.send, net, io) IN
  IF inv.stage = "raised"
  THEN Outcome(Raised("UnicodeEncodeError"), <<>>, <<>>, <<>>, inv.bpOptions)
  ELSE IF inv.stage = "too long"
  THEN Outcome(Returned("dict", k_error :> ERR_TOO_LONG), <<>>, <<>>, <<>>,
               inv.bpOptions)
  ELSE IF c.ret.raised \/ ~LoggingEnabled(inv.bpOptions)
  THEN c
  ELSE IF ~io
  THEN Outcome(Raised("IOError"), c.curl, c.sent, c.logged, c.bpOptions)
  ELSE Outcome(c.ret, c.curl, c.sent,
               c.logged \o bpLog("Create Invoice: ", io) \o bpLog("pos", io)
               \o bpLog("Response: ", io) \o bpLog("response", io),
               c.bpOptions)

(***************************************************************************)
(* bpVerifyNotification.  An api_key or post of <<>> is one that is not    *)
(* supplied (False, None) or is empty: both are falsy.                     *)
(***************************************************************************)
\* json_data['posData'] = pos_data['posData']
Unwrap_KeepsEnvelope(json_data, pos_data) == json_data

Unwrap(json_data, pos_data) ==
  [k \in DOMAIN json_data \cup {k_posData} |->
     IF k = k_posData THEN pos_data[k_posData] ELSE json_data[k]]

bpVerifyNotification(opts, api_key, post) ==
  LET key == IF api_key = <<>> THEN opts[k_apiKey] ELSE api_key
      json_data == json_loads(post)
      pos_data == json_loads(json_data.val[k_posData])
      inner == [kind |-> "unicode", text |-> pos_data.val[k_posData]]
      r == IF post = <<>> THEN Returned("str", ERR_NO_POST)
           ELSE IF ~json_data.ok THEN Raised("ValueError")
           ELSE IF k_posData \notin DOMAIN json_data.val
           THEN Returned("str", ERR_NO_POSDATA)
           ELSE IF ~pos_data.ok THEN Raised("ValueError")
           ELSE IF opts[k_verifyPos] /\ k_hash \notin DOMAIN pos_data.val
           THEN Raised("KeyError")
           ELSE IF k_posData \notin DOMAIN pos_data.val THEN Raised("KeyError")
           ELSE IF opts[k_verifyPos] /\ ~sanitize_dict(inner).ok
           THEN Raised("UnicodeEncodeError")
           ELSE IF opts[k_verifyPos]
                   /\ pos_data.val[k_hash] # bpHash(sanitize_dict(inner).val, key)
           THEN Returned("str", ERR_BAD_HASH)
           ELSE Returned("dict", Unwrap(json_data.val, pos_data.val))
  IN Outcome(r, <<>>, <<>>, <<>>, opts)

(***************************************************************************)
(* bpGetInvoice.                                                           *)
(***************************************************************************)
bpGetInvoice(opts, invoice_id, api_key, net, io) ==
  LET key == IF api_key = <<>> THEN opts[k_apiKey] ELSE api_key
      c == bpCurl(opts, bpCurlSend(URL_INVOICE \o invoice_id, key, <<>>), net, io)
      response == c.ret.val
      pos_data == json_loads(response[k_posData])
      r == IF k_posData \notin DOMAIN response THEN Raised("KeyError")
           ELSE IF ~pos_data.ok THEN Raised("ValueError")
           ELSE IF k_posData \notin DOMAIN pos_data.val THEN Raised("KeyError")
           ELSE Returned("dict",
                  [k \in DOMAIN response |->
                     IF k = k_posData THEN pos_data.val[k_posData]
                     ELSE response[k]])
  IN IF c.ret.raised THEN c
     ELSE Outcome(r, c.curl, c.sent, c.logged, c.bpOptions)

(***************************************************************************)
(* bpDecodeResponse.                                                       *)
(***************************************************************************)
bpDecodeResponse(opts, response) ==
  LET parsed == json_loads(response)
      r == IF response = <<>> THEN Returned("str", ERR_DECODE)
           ELSE IF ~parsed.ok THEN Raised("ValueError")
           ELSE Returned("dict", parsed.val)
  IN Outcome(r, <<>>, <<>>, <<>>, opts)

(***************************************************************************)
(* The state machine: the application calls one operation at a time and    *)
(* takes its result before it calls the next.                              *)
(***************************************************************************)
Init ==
  /\ config \in Configs
  /\ log = <<>>
  /\ pc = "ready"
  /\ call = [op |-> "none"]
  /\ ret = Returned("none", <<>>)
  /\ curl = <<>>
  /\ sent = <<>>

Complete(c, outcome) ==
  \E out \in {outcome} :
  /\ Len(log) + Len(out.logged) <= MaxLog
  /\ pc' = "returned"
  /\ call' = c
  /\ ret' = out.ret
  /\ curl' = out.curl
  /\ sent' = out.sent
  /\ log' = log \o out.logged
  /\ config' = out.bpOptions

CreateInvoice ==
  /\ pc = "ready"
  /\ \E pos_data \in PosDataValues, options \in OptionsValues :
       \E inv \in {InvoiceRequest(config, <<111>>, <<49>>, pos_data, options)},
          net \in NetOutcomes({<<60>>, json_dumps(k_id :> <<49>>)}),
          io \in IoOutcomes(config) :
         Complete([op |-> "createInvoice", order_id |-> <<111>>, price |-> <<49>>,
                   pos_data |-> pos_data, options |-> options],
                  bpCreateInvoice(inv, net, io))

GetInvoice ==
  /\ pc = "ready"
  /\ \E api_key \in KeySet, net \in NetOutcomes(ResponseTexts),
        io \in IoOutcomes(config) :
       Complete([op |-> "getInvoice", invoice_id |-> <<105>>, api_key |-> api_key],
                bpGetInvoice(config, <<105>>, api_key, net, io))

VerifyNotification ==
  /\ pc = "ready"
  /\ \E api_key \in KeySet, n \in Notifications :
       Complete([op |-> "verifyNotification", api_key |-> api_key, post |-> n.post,
                 enveloped |-> n.enveloped, posData |-> n.posData, hash |-> n.hash],
                bpVerifyNotification(config, api_key, n.post))

DecodeResponse ==
  /\ pc = "ready"
  /\ \E response \in {<<>>, <<123>>, json_dumps(k_id :> <<49>>)} :
       Complete([op |-> "decodeResponse", response |-> response],
                bpDecodeResponse(config, response))

Request ==
  /\ pc = "ready"
  /\ \E url \in {<<>>, <<32>>, URL_INVOICE}, api_key \in KeySet,
        post \in {<<>>, <<120>>, json_dumps(k_price :> <<49>>)},
        net \in NetOutcomes({<<60>>, json_dumps(k_id :> <<49>>)}),
        io \in IoOutcomes(config) :
       Complete([op |-> "request", url |-> url, api_key |-> api_key, post |-> post],
                bpCurl(config, bpCurlSend(url, api_key, post), net, io))

\* the application takes the result
Resume ==
  /\ pc = "returned"
  /\ pc' = "ready"
  /\ call' = [op |-> "none"]
  /\ ret' = Returned("none", <<>>)
  /\ curl' = <<>>
  /\ sent' = <<>>
  /\ UNCHANGED <<config, log>>

Next ==
  \/ CreateInvoice
  \/ GetInvoice
  \/ VerifyNotification
  \/ DecodeResponse
  \/ Request
  \/ Resume

Spec == Init /\ [][Next]_vars

(***************************************************************************)
(* Properties.                                                             *)
(***************************************************************************)
Done(op) == pc = "returned" /\ call.op = op

\* empty or whitespace only
Blank(t) == \A i \in 1..Len(t) : IsSpace(t[i])

IsErrorValue(r) ==
  ~r.raised /\ (r.kind = "str" \/ (r.kind = "dict" /\ k_error \in DOMAIN r.val))

\* the envelope the returned bpCreateInvoice call serialised
CallEnvelope ==
  json_dumps(PosEnvelope(config,
                         MergeOptions(config, IF call.options.present
                                              THEN call.options.d ELSE EmptyDict),
                         call.pos_data))

\* the returned bpCreateInvoice call got as far as serialising an envelope
EnvelopeBuilt ==
  Done("createInvoice") /\ ~(config[k_verifyPos] /\ ~sanitize_dict(call.pos_data).ok)

\* the body the returned bpCreateInvoice call handed to bpCurl
PostedBody == json_loads(curl[1].post).val

\* the key bpVerifyNotification verifies with
VerifyKey == IF call.api_key = <<>> THEN config[k_apiKey] ELSE call.api_key

\* C1: when the serialised posData envelope built by createInvoice is longer
\* than 100 characters, createInvoice returns the error value and neither
\* invokes the transport nor issues a network request.
C1_OversizedEnvelopeSendsNothing ==
  (EnvelopeBuilt /\ Len(CallEnvelope) > 100)
    => /\ ret = Returned("dict", k_error :> ERR_TOO_LONG)
       /\ curl = <<>>
       /\ sent = <<>>

\* a call whose envelope is over the limit only because of the hash has returned
C1_Witness ==
  /\ EnvelopeBuilt /\ Len(CallEnvelope) > 100
  /\ config[k_verifyPos] /\ Len(call.pos_data.text) = 30
  /\ ret = Returned("dict", k_error :> ERR_TOO_LONG)

\* C2: with verification enabled, a notification whose envelope carries
\* posData p and hash = bpHash(sanitize(p), k), verified with the same key k
\* (a key the transport accepts: not blank), makes verifyNotification return
\* the notification with posData replaced by p.
C2_VerifiedRoundTrip ==
  (/\ Done("verifyNotification") /\ config[k_verifyPos]
   /\ call.enveloped /\ ~Blank(call.api_key)
   /\ call.hash = bpHash(call.posData, call.api_key))
    => ret = Returned("dict", Notification(call.posData))

\* C3: with verification enabled, an envelope whose hash was computed with
\* another key than the one verified with, or over another posData than the
\* one it carries, makes verifyNotification return the authentication error
\* string; it neither raises nor returns the notification.
C3_BadHashIsErrorString ==
  (/\ Done("verifyNotification") /\ config[k_verifyPos]
   /\ call.enveloped /\ call.hash # <<>>
   /\ call.hash # bpHash(call.posData, VerifyKey))
    => ret = Returned("str", ERR_BAD_HASH)

\* the validation failures of the public operations
ValidationFailure ==
  \/ /\ pc = "returned" /\ curl # <<>>
     /\ (Blank(curl[1].url) \/ Blank(curl[1].api_key))
  \/ EnvelopeBuilt /\ Len(CallEnvelope) > 100
  \/ Done("verifyNotification") /\ call.post = <<>>
  \/ Done("decodeResponse") /\ call.response = <<>>
  \/ Done("verifyNotification") /\ call.post = json_dumps(k_id :> <<49>>)
  \/ /\ Done("verifyNotification") /\ config[k_verifyPos] /\ call.enveloped
     /\ call.hash # bpHash(call.posData, VerifyKey)

\* C4: every validation failure of a public operation (blank URL or API key,
\* oversized envelope, absent payload, missing posData field, hash mismatch
\* or missing hash) is a returned error value, never a raised fault (the
\* faults of the log file aside, which bpLog lets through).
C4_ValidationFailuresAreReturned ==
  (ValidationFailure /\ ret.exc # "IOError") => IsErrorValue(ret)

\* C5: every key of the body createInvoice hands to the transport is in the
\* allow-list post_options.
C5_BodyKeysAllowListed ==
  (Done("createInvoice") /\ curl # <<>>) => DOMAIN PostedBody \subseteq post_options

\* the options the returned bpCreateInvoice call was given
GivenOptions == IF call.options.present THEN call.options.d ELSE EmptyDict

\* an allow-listed key carries the caller's option, else the configured
\* value, and is absent when neither has it
Overridden(body, k) ==
  IF k \in DOMAIN GivenOptions
  THEN k \in DOMAIN body /\ body[k] = GivenOptions[k]
  ELSE IF k \in DOMAIN config
  THEN k \in DOMAIN body /\ body[k] = config[k]
  ELSE k \notin DOMAIN body

\* C6 as stated: every allow-listed key of the body is the configuration
\* value overridden by the caller's option.
C6_Original ==
  (Done("createInvoice") /\ curl # <<>>)
    => \A body \in {PostedBody} : \A k \in post_options : Overridden(body, k)

\* C6 amended: every allow-listed key other than orderID, price and posData
\* is the configuration value overridden by the caller's option; orderID and
\* price are the call's arguments and posData is the serialised envelope,
\* whatever the options and the configuration hold for them.
C6_MergedFields ==
  (Done("createInvoice") /\ curl # <<>>)
    => \A body \in {PostedBody} :
       /\ \A k \in post_options \ {k_orderID, k_price, k_posData} :
            Overridden(body, k)
       /\ {k_orderID, k_price, k_posData} \subseteq DOMAIN body
       /\ body[k_orderID] = call.order_id
       /\ body[k_price] = call.price
       /\ body[k_posData] = CallEnvelope

\* a body was posted for a call whose options override the configured currency
C6_Witness ==
  /\ Done("createInvoice") /\ curl # <<>>
  /\ call.options.present /\ k_currency \in DOMAIN call.options.d
  /\ PostedBody[k_currency] = EUR

\* C7: with verification disabled, a notification whose posData field is the
\* serialisation of {"posData": p} makes verifyNotification return the
\* notification with posData equal to p, for any API key.
C7_UnverifiedRoundTrip ==
  (/\ Done("verifyNotification") /\ ~config[k_verifyPos]
   /\ call.enveloped /\ call.hash = <<>>)
    => ret = Returned("dict", Notification(call.posData))

\* such a notification, whose posData needs escaping, was unwrapped
C7_Witness ==
  /\ Done("verifyNotification") /\ ~config[k_verifyPos]
  /\ call.enveloped /\ call.hash = <<>> /\ call.posData = <<34, 233>>
  /\ ret = Returned("dict", Notification(<<34, 233>>))

\* C8: the log file is appended to only during calls made while the
\* configuration's useLogging flag is enabled.
C8_LogOnlyWhenEnabled == [][log' # log => config[k_useLogging]]_vars

\* with logging disabled a response that is not JSON came back as an error
\* envelope and the log is empty
C8_Witness ==
  /\ Done("request") /\ ~config[k_useLogging]
  /\ sent # <<>>
  /\ ret = Returned("dict", k_error :> <<60>>)
  /\ log = <<>>

\* C9: no operation changes the configuration.
C9_ConfigNeverMutated == [][config' = config]_vars

\* a createInvoice call given options posted its body, and the configuration
\* holds none of the keys the call wrote into its merged options
C9_Witness ==
  /\ Done("createInvoice") /\ sent # <<>> /\ ~ret.raised
  /\ call.options.present /\ call.options.d # EmptyDict
  /\ DOMAIN config \cap {k_orderID, k_price, k_posData} = {}

=============================================================================
